---- MODULE Spec2Model ----
(* A model of qimg (src/qimg.mjs): boxed two-tone quantisation of a raster  *)
(* image and its binary container.  The transform stages boxify, pack,      *)
(* unpack, serialiseFromPacked and deserialiseIntoPacked are operators      *)
(* translated from the code; each specification below draws inputs from     *)
(* bounded sets and applies the stages as actions.                          *)
EXTENDS Integers, Sequences, FiniteSets, TLC

VARIABLES
    pc,         \* position of the run
    packed,     \* a PackedImage { size, boxSize, data }
    bytes,      \* a byte stream (array of numbers)
    decoded,    \* the value deserialiseIntoPacked returned
    reencoded,  \* the value serialiseFromPacked returned for `decoded`
    given,      \* which value the run started from: "packed" or "bytes"
    shape,      \* size, boxSize and data.length of a PackedImage too long to list
    pushed,     \* the 16 header bytes serialiseFromPacked pushed for `shape`
    recordCount,\* the number of box records its loop pushed after them
    image,      \* boxify: the RasterImage { width, height, data }
    optBoxSize, \* boxify: its boxSize argument (options.boxSize of the CLI)
    cropSize,   \* boxify: its local `size`, the cropped pixel dimensions
    boxList,    \* boxify: its local `data`, the boxes pushed so far
    yStart,     \* boxify: the outer loop variable
    xStart,     \* boxify: the inner loop variable
    boxes,      \* the BoxedImage boxify returned
    unpacked,   \* the bitmap unpack returned
    reference,  \* the bitmap unpack returned for the first order of the boxes
    options,    \* CLI: the parsed options and what the files hold
    outputFile, \* CLI: "absent" until something is written to the output path
    exitCode    \* the status the process ended with, None while it runs

unpackVars == <<unpacked, reference>>
cliVars == <<options, outputFile>>
boxifyVars == <<image, optBoxSize, cropSize, boxList, yStart, xStart, boxes>>
formatVars == <<packed, bytes, decoded, reencoded, given>>
limitVars == <<shape, pushed, recordCount>>

vars == <<pc, formatVars, limitVars, boxifyVars, unpackVars, cliVars, exitCode>>

(***************************************************************************)
(* JavaScript values.  Numbers are integers; the two non-integer values    *)
(* the code can produce are NaN and undefined, kept apart from every       *)
(* number the model uses.                                                  *)
(***************************************************************************)
NaN == -2000000
Undefined == -1000000
None == "none"

IsNum(v) == v \notin {NaN, Undefined}

Min(a, b) == IF a < b THEN a ELSE b

\* a > b of JavaScript: false when either side is NaN or undefined
JsGt(a, b) == IsNum(a) /\ IsNum(b) /\ a > b

\* a < b of JavaScript
JsLt(a, b) == IsNum(a) /\ IsNum(b) /\ a < b

\* ToInt32 of the bitwise operators, for the non-negative values met here
ToInt32(v) == IF IsNum(v) THEN v ELSE 0

Abs(a) == IF a < 0 THEN -a ELSE a

\* a % b of JavaScript for a >= 0: the sign of the dividend, NaN for b = 0
JsMod(a, b) == IF ~ IsNum(a) \/ ~ IsNum(b) \/ b = 0 THEN NaN ELSE a % Abs(b)

\* a - b of JavaScript
JsMinus(a, b) == IF ~ IsNum(a) \/ ~ IsNum(b) THEN NaN ELSE a - b

\* a + b of JavaScript
JsPlus(a, b) == IF ~ IsNum(a) \/ ~ IsNum(b) THEN NaN ELSE a + b

\* a / b of JavaScript where b divides a (every division of boxify does);
\* NaN / 0 is NaN, and -0 is written 0
JsDiv(a, b) ==
    IF ~ IsNum(a) \/ ~ IsNum(b) \/ b = 0 THEN NaN
    ELSE IF (a < 0) = (b < 0) THEN Abs(a) \div Abs(b)
    ELSE -(Abs(a) \div Abs(b))

\* array[i] with a 0-based index: undefined outside the array
At(s, i) == IF IsNum(i) /\ i >= 0 /\ i < Len(s) THEN s[i + 1] ELSE Undefined

\* array.slice(begin, end): 0-based, end exclusive, clamped to the array
Slice(s, begin, end) ==
    LET b == IF IsNum(begin) THEN begin ELSE 0
        e == IF IsNum(end) THEN Min(end, Len(s)) ELSE 0
    IN SubSeq(s, b + 1, e)

\* the element conversion of Uint8Array.from: NaN and undefined become 0,
\* every other number is taken modulo 2^8
ToUint8(v) == IF IsNum(v) THEN v % 256 ELSE 0

Uint8ArrayFrom(s) == [i \in 1..Len(s) |-> ToUint8(s[i])]

(***************************************************************************)
(* The container format                                                    *)
(***************************************************************************)
MAGIC == <<99, 115, 113, 47, 113, 105, 109, 103>>

VERSION == <<0, 1>>

\* process.exit() without an argument ends the process with status 0
\* (process.exitCode is never set)
ProcessExitCode == 0

\* the three bytes pushed for data.length
dataLengthBytes(n) ==
    << (n % 16777216) \div 65536, (n % 65536) \div 256, n % 256 >>

\* the guard in front of the header fields
tooLarge(boxSize, size) ==
    JsGt(boxSize, 255) \/ JsGt(size.width, 255) \/ JsGt(size.height, 255)

\* a faulty variant of boxRecord: the dark colour is pushed before the light colour
boxRecordDarkFirst(box) ==
    << box.x, box.y,
       box.dark.r, box.dark.g, box.dark.b,
       box.light.r, box.light.g, box.light.b >>
    \o [i \in 1..Len(box.data) |-> box.data[i].index]

\* the bytes pushed for one box
boxRecord(box) ==
    << box.x, box.y,
       box.light.r, box.light.g, box.light.b,
       box.dark.r, box.dark.g, box.dark.b >>
    \o [i \in 1..Len(box.data) |-> box.data[i].index]

\* for(let box of data): the records of the boxes, in list order (the list
\* is split in halves to keep the recursion shallow)
RECURSIVE boxRecords(_)
boxRecords(data) ==
    IF Len(data) = 0 THEN << >>
    ELSE IF Len(data) = 1 THEN boxRecord(data[1])
    ELSE LET half == Len(data) \div 2
         IN boxRecords(SubSeq(data, 1, half)) \o boxRecords(SubSeq(data, half + 1, Len(data)))

\* serialiseFromPacked ends the process instead of returning
serialiseExits(p) == tooLarge(p.boxSize, p.size)

\* the bytes pushed in front of the box records
headerBytes(boxSize, size, length) ==
    MAGIC \o VERSION \o << boxSize, size.width, size.height >> \o dataLengthBytes(length)

\* the bytes serialiseFromPacked returns when it returns
serialiseFromPacked(p) ==
    Uint8ArrayFrom(headerBytes(p.boxSize, p.size, Len(p.data)) \o boxRecords(p.data))

\* magic.every((item, index) => MAGIC[index] == item)
magicMatches(magic) == \A i \in 1..Len(magic) : MAGIC[i] = magic[i]

\* (header[13] << 16) | (header[14] << 8) | header[15], on bytes
decodeDataLength(header) ==
    ToInt32(At(header, 13)) * 65536
    + ToInt32(At(header, 14)) * 256
    + ToInt32(At(header, 15))

\* 2 + 3 + 3 + (boxSize ** 2)
boxBytesSizeOf(boxSize) == IF IsNum(boxSize) THEN 8 + boxSize * boxSize ELSE NaN

\* the pixels of one record: for y, for x, index (y * boxSize) + x
decodePixels(pixelBytes, boxSize) ==
    IF ~ JsLt(0, boxSize) THEN << >>
    ELSE [k \in 1..(boxSize * boxSize) |->
            LET x == (k - 1) % boxSize
                y == (k - 1) \div boxSize
            IN [x |-> x, y |-> y, index |-> At(pixelBytes, (y * boxSize) + x)]]

\* a faulty variant of decodeBox: the two coordinate bytes are read the other way round
decodeBoxSwappedXY(boxBytes, boxSize) ==
    [x |-> At(boxBytes, 1),
     y |-> At(boxBytes, 0),
     light |-> [r |-> At(boxBytes, 2), g |-> At(boxBytes, 3), b |-> At(boxBytes, 4)],
     dark |-> [r |-> At(boxBytes, 5), g |-> At(boxBytes, 6), b |-> At(boxBytes, 7)],
     data |-> decodePixels(Slice(boxBytes, 8, Len(boxBytes)), boxSize)]

\* one box from its record
decodeBox(boxBytes, boxSize) ==
    [x |-> At(boxBytes, 0),
     y |-> At(boxBytes, 1),
     light |-> [r |-> At(boxBytes, 2), g |-> At(boxBytes, 3), b |-> At(boxBytes, 4)],
     dark |-> [r |-> At(boxBytes, 5), g |-> At(boxBytes, 6), b |-> At(boxBytes, 7)],
     data |-> decodePixels(Slice(boxBytes, 8, Len(boxBytes)), boxSize)]

\* deserialiseIntoPacked ends the process instead of returning
deserialiseExits(b) == ~ magicMatches(Slice(Slice(b, 0, 16), 0, 8))

\* the PackedImage deserialiseIntoPacked returns when it returns
deserialiseIntoPacked(b) ==
    LET header == Slice(b, 0, 16)
        boxSize == At(header, 10)
        size == [width |-> At(header, 11), height |-> At(header, 12)]
        dataLength == decodeDataLength(header)
        rest == Slice(b, 16, Len(b))
        boxBytesSize == boxBytesSizeOf(boxSize)
        index(i) == IF IsNum(boxBytesSize) THEN boxBytesSize * i ELSE NaN
        upto(i) == IF IsNum(boxBytesSize) THEN index(i) + boxBytesSize ELSE NaN
    IN [size |-> size,
        boxSize |-> boxSize,
        data |-> [i \in 1..dataLength |->
                    decodeBox(Slice(rest, index(i - 1), upto(i - 1)), boxSize)]]

(***************************************************************************)
(* Inputs of the container format                                          *)
(***************************************************************************)
MaxBoxSize == 2
MaxBoxes == 2
WideCount == 256

SeqsUpTo(S, n) == UNION {[1..k -> S] : k \in 0..n}

\* palette-index layouts of a box, by position k = 1..boxSize^2
IndexLayout(layout, boxSize, k) ==
    CASE layout = 0 -> 0
      [] layout = 1 -> 1
      [] layout = 2 -> k % 2
      [] OTHER -> IF k <= boxSize THEN 1 ELSE 0

\* boxSize^2 pixels in row-major local order
RowMajorPixels(boxSize, layout) ==
    [k \in 1..(boxSize * boxSize) |->
        [x |-> (k - 1) % boxSize,
         y |-> (k - 1) \div boxSize,
         index |-> IndexLayout(layout, boxSize, k)]]

LightDark(lr, lg, lb, dr, dg, db) ==
    [light |-> [r |-> lr, g |-> lg, b |-> lb], dark |-> [r |-> dr, g |-> dg, b |-> db]]

\* sample boxes: coordinates, colours, index layout; the coordinate 256 of
\* the last one does not fit a byte
BoxChoices ==
    { << 0, 0, LightDark(255, 128, 0, 0, 1, 2), 2 >>,
      << 1, 255, LightDark(7, 7, 7, 255, 255, 255), 3 >>,
      << 255, 1, LightDark(0, 0, 0, 9, 8, 7), 1 >>,
      << 2, 3, LightDark(1, 2, 3, 4, 5, 6), 0 >>,
      << 256, 0, LightDark(10, 20, 30, 40, 50, 60), 2 >> }

PackedBoxSamples(boxSize) ==
    { [x |-> c[1], y |-> c[2], light |-> c[3].light, dark |-> c[3].dark,
       data |-> RowMajorPixels(boxSize, c[4])] : c \in BoxChoices }

SizeSamples == { [width |-> 0, height |-> 0], [width |-> 1, height |-> 255],
                 [width |-> 255, height |-> 2] }

PackedSamples ==
    UNION { { [size |-> sz, boxSize |-> bs, data |-> d] :
                sz \in SizeSamples, d \in SeqsUpTo(PackedBoxSamples(bs), MaxBoxes) } :
            bs \in 0..MaxBoxSize }
    \cup { [size |-> [width |-> 3, height |-> 4], boxSize |-> 0,
            data |-> [i \in 1..WideCount |->
                        [x |-> i % 256, y |-> 0, light |-> [r |-> 1, g |-> 2, b |-> 3],
                         dark |-> [r |-> 4, g |-> 5, b |-> 6], data |-> << >>]]] }
    \cup { [size |-> sz, boxSize |-> bs, data |-> << >>] :
            sz \in { [width |-> 256, height |-> 1], [width |-> 1, height |-> 256],
                     [width |-> 1, height |-> 1] },
            bs \in { 1, 256 } }

\* the bytes of one sample record of a stream
RecordSample(boxSize, kind) ==
    [i \in 1..(8 + boxSize * boxSize) |->
        CASE kind = 0 -> 0
          [] kind = 1 -> 255
          [] OTHER -> (i * 53) % 256]

VersionSamples == { <<0, 1>>, <<0, 2>>, <<255, 0>> }

RECURSIVE Flatten(_)
Flatten(ss) ==
    IF Len(ss) = 0 THEN << >>
    ELSE IF Len(ss) = 1 THEN ss[1]
    ELSE LET half == Len(ss) \div 2
         IN Flatten(SubSeq(ss, 1, half)) \o Flatten(SubSeq(ss, half + 1, Len(ss)))

\* a stream with the layout of the container: magic, version, boxSize,
\* size.width, size.height, 24-bit big-endian box count, the records
Stream(version, boxSize, w, h, records) ==
    MAGIC \o version \o << boxSize, w, h >>
    \o << Len(records) \div 65536, (Len(records) \div 256) % 256, Len(records) % 256 >>
    \o Flatten(records)

WellFormedSamples ==
    UNION { { Stream(v, bs, wh[1], wh[2], recs) :
                v \in VersionSamples,
                wh \in { <<0, 0>>, <<1, 255>>, <<255, 2>> },
                recs \in SeqsUpTo({ RecordSample(bs, kind) : kind \in 0..2 }, MaxBoxes) } :
            bs \in 0..MaxBoxSize }
    \cup { Stream(v, 0, 3, 4, [i \in 1..WideCount |-> RecordSample(0, 2)]) :
            v \in { <<0, 1>>, <<0, 2>> } }

\* streams that are not of the container's layout: proper prefixes of the
\* magic, one magic byte changed, and streams cut short after the magic
MalformedSamples ==
    { SubSeq(MAGIC, 1, k) : k \in 0..7 }
    \cup { [ Stream(<<0, 1>>, 1, 1, 1, << RecordSample(1, 2) >>)
                EXCEPT ![i] = (@ + 1) % 256 ] : i \in 1..8 }
    \cup { MAGIC, MAGIC \o <<0, 1, 1>>, MAGIC \o <<0, 1, 1, 1, 1, 0, 0, 1>> }

StreamSamples == WellFormedSamples \cup MalformedSamples

(***************************************************************************)
(* SpecFormat: a PackedImage is serialised and read back, or a byte stream *)
(* is read and serialised again.                                           *)
(***************************************************************************)
FormatIdle == packed = None /\ bytes = None /\ decoded = None /\ reencoded = None /\ given = None

BoxifyIdle ==
    /\ image = None /\ optBoxSize = None /\ cropSize = None /\ boxList = None
    /\ yStart = None /\ xStart = None /\ boxes = None

UnpackIdle == unpacked = None /\ reference = None

CliIdle == options = None /\ outputFile = None

LimitIdle == shape = None /\ pushed = None /\ recordCount = None

InitFormat ==
    /\ pc = "start"
    /\ LimitIdle /\ BoxifyIdle /\ UnpackIdle /\ CliIdle
    /\ decoded = None
    /\ reencoded = None
    /\ exitCode = None
    /\ \/ given = "packed" /\ packed \in PackedSamples /\ bytes = None
       \/ given = "bytes" /\ bytes \in StreamSamples /\ packed = None

\* serialiseFromPacked(packed) returns its bytes
Serialise ==
    /\ pc = "start" /\ given = "packed"
    /\ ~ serialiseExits(packed)
    /\ bytes' = serialiseFromPacked(packed)
    /\ pc' = "serialised"
    /\ UNCHANGED <<packed, decoded, reencoded, given, limitVars, boxifyVars, exitCode, unpackVars, cliVars>>

\* serialiseFromPacked(packed) ends the process
SerialiseExit ==
    /\ pc = "start" /\ given = "packed"
    /\ serialiseExits(packed)
    /\ exitCode' = ProcessExitCode
    /\ pc' = "exited"
    /\ UNCHANGED <<formatVars, limitVars, boxifyVars, unpackVars, cliVars>>

\* deserialiseIntoPacked(bytes) returns a PackedImage
Deserialise ==
    /\ \/ pc = "start" /\ given = "bytes"
       \/ pc = "serialised"
    /\ ~ deserialiseExits(bytes)
    /\ decoded' = deserialiseIntoPacked(bytes)
    /\ pc' = "deserialised"
    /\ UNCHANGED <<packed, bytes, reencoded, given, limitVars, boxifyVars, exitCode, unpackVars, cliVars>>

\* deserialiseIntoPacked(bytes) ends the process
DeserialiseExit ==
    /\ \/ pc = "start" /\ given = "bytes"
       \/ pc = "serialised"
    /\ deserialiseExits(bytes)
    /\ exitCode' = ProcessExitCode
    /\ pc' = "exited"
    /\ UNCHANGED <<formatVars, limitVars, boxifyVars, unpackVars, cliVars>>

\* serialiseFromPacked(decoded) returns its bytes
Reserialise ==
    /\ pc = "deserialised"
    /\ ~ serialiseExits(decoded)
    /\ reencoded' = serialiseFromPacked(decoded)
    /\ pc' = "reserialised"
    /\ UNCHANGED <<packed, bytes, decoded, given, limitVars, boxifyVars, exitCode, unpackVars, cliVars>>

NextFormat == Serialise \/ SerialiseExit \/ Deserialise \/ DeserialiseExit \/ Reserialise

SpecFormat == InitFormat /\ [][NextFormat]_vars

\* every field of p fits a byte and every box holds boxSize^2 palette
\* indices in row-major local order
ByteRepresentable(p) ==
    /\ p.boxSize \in 0..255 /\ p.size.width \in 0..255 /\ p.size.height \in 0..255
    /\ Len(p.data) <= 16777215
    /\ \A i \in 1..Len(p.data) :
        LET box == p.data[i] IN
        /\ box.x \in 0..255 /\ box.y \in 0..255
        /\ \A ch \in {box.light.r, box.light.g, box.light.b,
                      box.dark.r, box.dark.g, box.dark.b} : ch \in 0..255
        /\ Len(box.data) = p.boxSize * p.boxSize
        /\ \A k \in 1..Len(box.data) :
            /\ box.data[k].index \in {0, 1}
            /\ box.data[k].x = (k - 1) % p.boxSize
            /\ box.data[k].y = (k - 1) \div p.boxSize

\* b is laid out as the container: magic, version, three size bytes, a box
\* count n, then exactly n records of 8 + boxSize^2 bytes
WellFormed(b) ==
    /\ Len(b) >= 16
    /\ SubSeq(b, 1, 8) = MAGIC
    /\ \A i \in 1..Len(b) : b[i] \in 0..255
    /\ Len(b) = 16 + (b[14] * 65536 + b[15] * 256 + b[16]) * (8 + b[11] * b[11])

\* C1: a PackedImage whose fields fit their bytes, serialised and then
\* deserialised, comes back equal field for field.
C1_PackedRoundTrip ==
    (given = "packed" /\ pc \in {"deserialised", "reserialised"} /\ ByteRepresentable(packed))
        => decoded = packed

C1_Witness ==
    /\ given = "packed" /\ pc = "deserialised" /\ ByteRepresentable(packed)
    /\ packed.boxSize = 2 /\ Len(packed.data) = 2
    /\ packed.data[1] # packed.data[2]
    /\ \E k \in 1..4 : packed.data[1].data[k].index # packed.data[1].data[1].index

\* C2 as stated: every well-formed stream, whatever its version tag, is
\* reproduced byte for byte by deserialising and serialising it.
C2_AnyVersionRoundTrip ==
    (given = "bytes" /\ pc = "reserialised" /\ WellFormed(bytes)) => reencoded = bytes

\* C2 amended: a well-formed stream whose version tag is 0,1 is reproduced
\* byte for byte by deserialising and serialising it.
C2_CurrentVersionRoundTrip ==
    (given = "bytes" /\ pc = "reserialised" /\ WellFormed(bytes)
        /\ SubSeq(bytes, 9, 10) = VERSION)
        => reencoded = bytes

C2_Witness ==
    /\ given = "bytes" /\ pc = "reserialised" /\ WellFormed(bytes)
    /\ SubSeq(bytes, 9, 10) = VERSION
    /\ bytes[11] = 2 /\ bytes[16] = 2
    /\ bytes[17] # bytes[18]

\* C4: deserialiseIntoPacked returns a PackedImage only for a stream that
\* starts with the eight magic bytes.
C4_ReturnsOnlyOnMagic ==
    (given = "bytes" /\ pc \in {"deserialised", "reserialised"})
        => (Len(bytes) >= 8 /\ SubSeq(bytes, 1, 8) = MAGIC)

(***************************************************************************)
(* SpecLimits: serialiseFromPacked on PackedImages with up to 2^24 + 1     *)
(* boxes.  Such a list is not written out: the state keeps the fields the  *)
(* header is computed from (boxSize, size, data.length), the header the    *)
(* code pushes for them, and the number of records its loop over data      *)
(* pushes, one for each box.                                               *)
(***************************************************************************)
ShapeSamples ==
    { [boxSize |-> bs, size |-> [width |-> w, height |-> h], length |-> n] :
        bs \in {0, 1, 255, 256}, w \in {1, 255, 256}, h \in {1, 255, 300},
        n \in {0, 1, 255, 256, 65536, 16777215, 16777216, 16777217} }

InitLimits ==
    /\ pc = "start"
    /\ FormatIdle /\ BoxifyIdle /\ UnpackIdle /\ CliIdle
    /\ shape \in ShapeSamples
    /\ pushed = None
    /\ recordCount = None
    /\ exitCode = None

\* the guard of serialiseFromPacked holds: process.exit()
SerialiseShapeExit ==
    /\ pc = "start"
    /\ tooLarge(shape.boxSize, shape.size)
    /\ exitCode' = ProcessExitCode
    /\ pc' = "exited"
    /\ UNCHANGED <<formatVars, limitVars, boxifyVars, unpackVars, cliVars>>

\* serialiseFromPacked returns: the header, then one record for each box
SerialiseShape ==
    /\ pc = "start"
    /\ ~ tooLarge(shape.boxSize, shape.size)
    /\ pushed' = Uint8ArrayFrom(headerBytes(shape.boxSize, shape.size, shape.length))
    /\ recordCount' = shape.length
    /\ pc' = "serialised"
    /\ UNCHANGED <<formatVars, shape, boxifyVars, exitCode, unpackVars, cliVars>>

NextLimits == SerialiseShapeExit \/ SerialiseShape

SpecLimits == InitLimits /\ [][NextLimits]_vars

\* the value of the 24-bit big-endian box count of a header
CountField(h) == h[14] * 65536 + h[15] * 256 + h[16]

\* C3: serialiseFromPacked returns bytes only when boxSize, size.width and
\* size.height are at most 255 and the box count is at most 2^24-1, and the
\* count field of what it returns is the number of records that follow.
C3_OverflowRejected ==
    pc = "serialised" =>
        /\ shape.boxSize <= 255 /\ shape.size.width <= 255 /\ shape.size.height <= 255
        /\ shape.length <= 16777215
        /\ CountField(pushed) = recordCount

(***************************************************************************)
(* boxify                                                                  *)
(***************************************************************************)
\* a faulty variant of pixelIndex: the row stride is the cropped width
pixelIndexCroppedStride(img, size, realX, realY) == (realY * size.width) + realX

\* index = (realY * image.width) + realX
pixelIndex(img, size, realX, realY) == (realY * img.width) + realX

\* the pixel pushed for local (x, y) of the box starting at (x0, y0)
boxPixel(img, size, x0, y0, x, y) ==
    LET index == pixelIndex(img, size, x0 + x, y0 + y)
    IN [x |-> x, y |-> y,
        color |-> [r |-> At(img.data, index * 4),
                   g |-> At(img.data, index * 4 + 1),
                   b |-> At(img.data, index * 4 + 2)]]

\* the box pushed for (xStart, yStart): for y, for x, push the pixel; the two
\* loops run boxSize times each, and not at all for boxSize <= 0
boxAt(img, boxSize, size, x0, y0) ==
    [x |-> JsDiv(x0, boxSize),
     y |-> JsDiv(y0, boxSize),
     data |-> IF boxSize <= 0 THEN << >>
              ELSE [k \in 1..(boxSize * boxSize) |->
                       boxPixel(img, size, x0, y0, (k - 1) % boxSize, (k - 1) \div boxSize)]]

\* the local `size` of boxify
croppedSize(img, boxSize) ==
    [width |-> JsMinus(img.width, JsMod(img.width, boxSize)),
     height |-> JsMinus(img.height, JsMod(img.height, boxSize))]

\* the value boxify returns
boxifyResult(size, boxSize, data) ==
    [size |-> [width |-> JsDiv(size.width, boxSize),
               height |-> JsDiv(size.height, boxSize)],
     boxSize |-> boxSize,
     data |-> data]

MaxDim == 3
MaxLoop == 20

\* a raster of w x h pixels, RGBA, every pixel of its own colour
RasterSample(w, h, seed) ==
    [width |-> w, height |-> h,
     data |-> [j \in 1..(w * h * 4) |->
                LET idx == (j - 1) \div 4
                    ch == (j - 1) % 4
                IN CASE ch = 0 -> (idx * 15 + seed) % 256
                     [] ch = 1 -> (idx * 3 + seed * 7) % 256
                     [] ch = 2 -> 255 - idx
                     [] OTHER -> 255]]

BoxSizeSamples == (-2)..MaxDim

(***************************************************************************)
(* SpecBoxify: boxify(image, boxSize), one step for each test of its two   *)
(* outer loops.  For a negative boxSize the loops never end; the model     *)
(* follows them for MaxLoop rounds.                                        *)
(***************************************************************************)
InitBoxify ==
    /\ pc = "start"
    /\ FormatIdle /\ LimitIdle /\ UnpackIdle /\ CliIdle
    /\ image \in { RasterSample(w, h, seed) : w \in 1..MaxDim, h \in 1..MaxDim, seed \in {1, 2} }
    /\ optBoxSize \in BoxSizeSamples
    /\ cropSize = None /\ boxList = None /\ yStart = None /\ xStart = None
    /\ boxes = None
    /\ exitCode = None

\* lines 31-40: size is computed, data is empty, yStart = 0
BoxifyEnter ==
    /\ pc = "start"
    /\ cropSize' = croppedSize(image, optBoxSize)
    /\ boxList' = << >>
    /\ yStart' = 0
    /\ pc' = "rows"
    /\ UNCHANGED <<formatVars, limitVars, image, optBoxSize, xStart, boxes, exitCode, unpackVars, cliVars>>

\* yStart < size.height holds: the inner loop starts at xStart = 0
BoxifyRow ==
    /\ pc = "rows"
    /\ JsLt(yStart, cropSize.height)
    /\ yStart > -MaxLoop
    /\ xStart' = 0
    /\ pc' = "columns"
    /\ UNCHANGED <<formatVars, limitVars, image, optBoxSize, cropSize, boxList, yStart,
                   boxes, exitCode, unpackVars, cliVars>>

\* xStart < size.width holds: one box is pushed, xStart += boxSize
BoxifyBox ==
    /\ pc = "columns"
    /\ JsLt(xStart, cropSize.width)
    /\ Len(boxList) < MaxLoop
    /\ boxList' = Append(boxList, boxAt(image, optBoxSize, cropSize, xStart, yStart))
    /\ xStart' = xStart + optBoxSize
    /\ UNCHANGED <<pc, formatVars, limitVars, image, optBoxSize, cropSize, yStart,
                   boxes, exitCode, unpackVars, cliVars>>

\* xStart < size.width fails: yStart += boxSize
BoxifyRowDone ==
    /\ pc = "columns"
    /\ ~ JsLt(xStart, cropSize.width)
    /\ yStart' = yStart + optBoxSize
    /\ pc' = "rows"
    /\ UNCHANGED <<formatVars, limitVars, image, optBoxSize, cropSize, boxList, xStart,
                   boxes, exitCode, unpackVars, cliVars>>

\* yStart < size.height fails: boxify returns
BoxifyReturn ==
    /\ pc = "rows"
    /\ ~ JsLt(yStart, cropSize.height)
    /\ boxes' = boxifyResult(cropSize, optBoxSize, boxList)
    /\ pc' = "returned"
    /\ UNCHANGED <<formatVars, limitVars, image, optBoxSize, cropSize, boxList, yStart,
                   xStart, exitCode, unpackVars, cliVars>>

NextBoxify == BoxifyEnter \/ BoxifyRow \/ BoxifyBox \/ BoxifyRowDone \/ BoxifyReturn

SpecBoxify == InitBoxify /\ [][NextBoxify]_vars

\* C5: boxify called with boxSize <= 0 returns no BoxedImage.
C5_NonPositiveRejected == optBoxSize <= 0 => pc # "returned"

\* the R, G, B of the source pixel at (sx, sy)
SourceColour(img, sx, sy) ==
    [r |-> img.data[(sy * img.width + sx) * 4 + 1],
     g |-> img.data[(sy * img.width + sx) * 4 + 2],
     b |-> img.data[(sy * img.width + sx) * 4 + 3]]

\* C9: for boxSize >= 1 boxify returns floor(W/boxSize) x floor(H/boxSize)
\* boxes in row-major grid order, each with its boxSize^2 pixels in row-major
\* local order and the colours of the source pixels they cover; the pixels
\* of the cropped remainder are in no box.
C9_BoxifyGrid ==
    (pc = "returned" /\ optBoxSize >= 1) =>
        LET bs == optBoxSize
            w == image.width \div bs
            h == image.height \div bs
        IN /\ boxes.size = [width |-> w, height |-> h]
           /\ boxes.boxSize = bs
           /\ Len(boxes.data) = w * h
           /\ \A k \in 0..(Len(boxes.data) - 1) :
                LET box == boxes.data[k + 1] IN
                /\ box.x = k % w /\ box.y = k \div w
                /\ Len(box.data) = bs * bs
                /\ \A i \in 0..(bs * bs - 1) :
                    LET px == box.data[i + 1] IN
                    /\ px.x = i % bs /\ px.y = i \div bs
                    /\ px.color = SourceColour(image, box.x * bs + px.x, box.y * bs + px.y)
           /\ \A sx \in 0..(image.width - 1), sy \in 0..(image.height - 1) :
                (sx >= w * bs \/ sy >= h * bs) =>
                    \A k \in 1..Len(boxes.data) :
                        \A i \in 1..Len(boxes.data[k].data) :
                            boxes.data[k].data[i].color # SourceColour(image, sx, sy)

C9_Witness ==
    /\ pc = "returned" /\ optBoxSize = 2
    /\ image.width = 3 /\ image.height = 3
    /\ Len(boxes.data) = 1

(***************************************************************************)
(* pack                                                                    *)
(*                                                                         *)
(* getLuminance is sqrt(0.241 r^2 + 0.691 g^2 + 0.068 b^2) / 255 in        *)
(* floating point.  The model keeps it in fixed point: the integer square  *)
(* root of 241 r^2 + 691 g^2 + 68 b^2, that is the luminance in units of   *)
(* 1 / (255 * sqrt(1000)), truncated.  The average of n luminances is kept *)
(* as their total, and `luminance >= averageLuminance` is decided as       *)
(* luminance * n >= total.                                                 *)
(***************************************************************************)
RECURSIVE ISqrtIn(_, _, _)
ISqrtIn(n, lo, hi) ==
    IF lo >= hi THEN lo
    ELSE LET mid == (lo + hi + 1) \div 2
         IN IF mid * mid <= n THEN ISqrtIn(n, mid, hi) ELSE ISqrtIn(n, lo, mid - 1)

\* the largest s with s * s <= n, for n below 2^27
ISqrt(n) == ISqrtIn(n, 0, 11585)

getLuminance(color) ==
    ISqrt(241 * color.r * color.r + 691 * color.g * color.g + 68 * color.b * color.b)

\* box.data.reduce((accumulator, current) => accumulator + getLuminance(current.color), 0)
RECURSIVE totalLuminanceOf(_)
totalLuminanceOf(data) ==
    IF Len(data) = 0 THEN 0
    ELSE totalLuminanceOf(SubSeq(data, 1, Len(data) - 1)) + getLuminance(data[Len(data)].color)

\* a faulty variant of isLight: a pixel exactly at the average counts as dark
isLightStrict(luminance, total, n) == n > 0 /\ luminance * n > total

\* luminance >= averageLuminance, with averageLuminance = total / n
\* (0 / 0 is NaN for an empty box, and no comparison with NaN holds)
isLight(luminance, total, n) == n > 0 /\ luminance * n >= total

\* the totals of one partition after the loop over box.data
RECURSIVE partitionTotals(_, _, _, _)
partitionTotals(data, total, n, light) ==
    IF Len(data) = 0 THEN [r |-> 0, g |-> 0, b |-> 0, n |-> 0]
    ELSE LET rest == partitionTotals(SubSeq(data, 1, Len(data) - 1), total, n, light)
             pixel == data[Len(data)]
         IN IF isLight(getLuminance(pixel.color), total, n) = light
            THEN [r |-> rest.r + pixel.color.r, g |-> rest.g + pixel.color.g,
                  b |-> rest.b + pixel.color.b, n |-> rest.n + 1]
            ELSE rest

\* Math.floor(a / n) for a >= 0: 0 / 0 is NaN
floorDiv(a, n) == IF n = 0 THEN NaN ELSE a \div n

meanColour(totals) ==
    [r |-> floorDiv(totals.r, totals.n),
     g |-> floorDiv(totals.g, totals.n),
     b |-> floorDiv(totals.b, totals.n)]

\* the newBox pack pushes for one box
packBox(box) ==
    LET n == Len(box.data)
        total == totalLuminanceOf(box.data)
    IN [x |-> box.x,
        y |-> box.y,
        light |-> meanColour(partitionTotals(box.data, total, n, TRUE)),
        dark |-> meanColour(partitionTotals(box.data, total, n, FALSE)),
        data |-> [i \in 1..n |->
                    [x |-> box.data[i].x,
                     y |-> box.data[i].y,
                     index |-> IF isLight(getLuminance(box.data[i].color), total, n)
                               THEN 1 ELSE 0]]]

pack(boxed) ==
    [size |-> boxed.size,
     boxSize |-> boxed.boxSize,
     data |-> [i \in 1..Len(boxed.data) |-> packBox(boxed.data[i])]]

Rgb(r, g, b) == [r |-> r, g |-> g, b |-> b]

\* the colour of the k-th pixel of a sample box
FillColour(fill, k) ==
    CASE fill = 0 -> Rgb(100, 150, 200)
      [] fill = 1 -> Rgb(0, 0, 0)
      [] fill = 2 -> IF k % 2 = 0 THEN Rgb(0, 0, 0) ELSE Rgb(255, 255, 255)
      [] fill = 3 -> IF k = 1 THEN Rgb(255, 255, 255) ELSE Rgb(255, 0, 0)
      [] fill = 4 -> IF k = 1 THEN Rgb(10, 20, 30) ELSE Rgb(255, 255, 255)
      [] fill = 5 -> Rgb((k * 40) % 256, (k * 25) % 256, 255 - k * 20)
      [] OTHER -> IF k % 3 = 0 THEN Rgb(9, 200, 17) ELSE Rgb(201, 10, 250)

Fills == 0..6

\* a BoxedImage of Len(fills) boxes of boxSize^2 pixels each
BoxedSample(boxSize, fills) ==
    [size |-> [width |-> 2, height |-> 2],
     boxSize |-> boxSize,
     data |-> [i \in 1..Len(fills) |->
                [x |-> (i - 1) % 2, y |-> (i - 1) \div 2,
                 data |-> [k \in 1..(boxSize * boxSize) |->
                            [x |-> (k - 1) % boxSize, y |-> (k - 1) \div boxSize,
                             color |-> FillColour(fills[i], k)]]]]]

(***************************************************************************)
(* SpecPack: pack applied to a BoxedImage                                  *)
(***************************************************************************)
InitPack ==
    /\ pc = "start"
    /\ LimitIdle /\ UnpackIdle /\ CliIdle
    /\ image = None /\ optBoxSize = None /\ cropSize = None /\ boxList = None
    /\ yStart = None /\ xStart = None
    /\ boxes \in { BoxedSample(bs, fills) : bs \in 1..MaxBoxSize, fills \in SeqsUpTo(Fills, MaxBoxes) }
    /\ packed = None /\ bytes = None /\ decoded = None /\ reencoded = None /\ given = None
    /\ exitCode = None

Pack ==
    /\ pc = "start"
    /\ packed' = pack(boxes)
    /\ pc' = "packed"
    /\ UNCHANGED <<bytes, decoded, reencoded, given, limitVars, boxifyVars, exitCode, unpackVars, cliVars>>

NextPack == Pack

SpecPack == InitPack /\ [][NextPack]_vars

IsByte(v) == v \in 0..255

\* the positions of the pixels of a box at or above (light) or below (dark)
\* the mean luminance of the box
LightSet(box) ==
    LET n == Len(box.data)
        total == totalLuminanceOf(box.data)
    IN { j \in 1..n : getLuminance(box.data[j].color) * n >= total }

DarkSet(box) == (1..Len(box.data)) \ LightSet(box)

RECURSIVE SumOver(_, _, _)
SumOver(box, positions, channel) ==
    IF positions = {} THEN 0
    ELSE LET j == CHOOSE j \in positions : TRUE
             c == box.data[j].color
             v == CASE channel = "r" -> c.r [] channel = "g" -> c.g [] OTHER -> c.b
         IN v + SumOver(box, positions \ {j}, channel)

\* the per-channel floor of the mean colour over the pixels at `positions`
FloorMean(box, positions) ==
    [r |-> SumOver(box, positions, "r") \div Cardinality(positions),
     g |-> SumOver(box, positions, "g") \div Cardinality(positions),
     b |-> SumOver(box, positions, "b") \div Cardinality(positions)]

\* C6: a box with an empty partition is packed with both colours defined,
\* every channel in 0..255, the empty partition's colour being the other
\* partition's colour or the mean colour of the whole box.
C6_EmptyPartitionFallback ==
    pc = "packed" =>
        \A i \in 1..Len(boxes.data) :
            LET box == boxes.data[i]
                out == packed.data[i]
                all == FloorMean(box, 1..Len(box.data))
            IN /\ DarkSet(box) = {} =>
                    /\ \A ch \in {out.dark.r, out.dark.g, out.dark.b} : IsByte(ch)
                    /\ \A ch \in {out.light.r, out.light.g, out.light.b} : IsByte(ch)
                    /\ out.dark \in {out.light, all}
               /\ LightSet(box) = {} =>
                    /\ \A ch \in {out.dark.r, out.dark.g, out.dark.b} : IsByte(ch)
                    /\ \A ch \in {out.light.r, out.light.g, out.light.b} : IsByte(ch)
                    /\ out.light \in {out.dark, all}

\* C7: pack keeps each box's (x, y) and gives one index for each pixel, at
\* the same position and with the same local (x, y); the index is 1 exactly
\* for the pixels whose luminance is at least the mean of the box; light
\* and dark pixels together are boxSize^2; and the colour of each non-empty
\* partition is the per-channel floor of the mean over its pixels.
C7_PackPartition ==
    pc = "packed" =>
        /\ Len(packed.data) = Len(boxes.data)
        /\ \A i \in 1..Len(boxes.data) :
            LET box == boxes.data[i]
                out == packed.data[i]
                ones == { j \in 1..Len(out.data) : out.data[j].index = 1 }
                zeros == { j \in 1..Len(out.data) : out.data[j].index = 0 }
            IN /\ out.x = box.x /\ out.y = box.y
               /\ Len(out.data) = Len(box.data)
               /\ \A j \in 1..Len(box.data) :
                    /\ out.data[j].x = box.data[j].x
                    /\ out.data[j].y = box.data[j].y
                    /\ out.data[j].index = (IF j \in LightSet(box) THEN 1 ELSE 0)
               /\ Cardinality(ones) + Cardinality(zeros) = boxes.boxSize * boxes.boxSize
               /\ ones # {} => out.light = FloorMean(box, ones)
               /\ zeros # {} => out.dark = FloorMean(box, zeros)

C7_Witness ==
    /\ pc = "packed"
    /\ boxes.boxSize = 2
    /\ Len(boxes.data) = 2
    /\ \E i \in 1..2 : Cardinality(LightSet(boxes.data[i])) = 1
    /\ \E i \in 1..2 : Cardinality(DarkSet(boxes.data[i])) = 0

(***************************************************************************)
(* unpack                                                                  *)
(***************************************************************************)
\* new Array(width * height * 4).fill(0).map((_, index) => index % 4 == 3 ? 255 : 0)
blankImageData(width, height) ==
    [j \in 1..(width * height * 4) |-> IF (j - 1) % 4 = 3 THEN 255 ELSE 0]

\* a faulty variant of pixelOffset: the row stride is the height
pixelOffsetHeightStride(width, height, x, y) == ((height * y) + x) * 4

\* index = ((width * y) + x) * 4
pixelOffset(width, height, x, y) == ((width * y) + x) * 4

\* the four assignments for one pixel of a box
writePixel(imageData, width, height, boxSize, box, pixel) ==
    LET x == (box.x * boxSize) + pixel.x
        y == (box.y * boxSize) + pixel.y
        index == pixelOffset(width, height, x, y)
        color == IF pixel.index = 0 THEN box.dark ELSE box.light
    IN [imageData EXCEPT ![index + 1] = color.r,
                         ![index + 2] = color.g,
                         ![index + 3] = color.b,
                         ![index + 4] = 255]

\* for(let pixel of box.data), the first k pixels
RECURSIVE writeBox(_, _, _, _, _, _)
writeBox(imageData, width, height, boxSize, box, k) ==
    IF k = 0 THEN imageData
    ELSE writePixel(writeBox(imageData, width, height, boxSize, box, k - 1),
                    width, height, boxSize, box, box.data[k])

\* for(let box of data), the first k boxes
RECURSIVE writeBoxes(_, _, _, _, _, _)
writeBoxes(imageData, width, height, boxSize, data, k) ==
    IF k = 0 THEN imageData
    ELSE writeBox(writeBoxes(imageData, width, height, boxSize, data, k - 1),
                  width, height, boxSize, data[k], Len(data[k].data))

\* the bitmap unpack returns
unpack(p) ==
    LET width == p.size.width * p.boxSize
        height == p.size.height * p.boxSize
    IN [width |-> width,
        height |-> height,
        data |-> writeBoxes(blankImageData(width, height), width, height,
                            p.boxSize, p.data, Len(p.data))]

GridSamples == { [width |-> 1, height |-> 1], [width |-> 2, height |-> 1],
                 [width |-> 1, height |-> 2], [width |-> 2, height |-> 2] }

\* sample looks of a box: its two colours and its index layout
LookSamples ==
    { << LightDark(255, 128, 0, 0, 1, 2), 2 >>,
      << LightDark(7, 7, 7, 250, 251, 252), 3 >>,
      << LightDark(1, 2, 3, 4, 5, 6), 0 >> }

\* the boxes that lie inside a grid
GridBoxSamples(size, boxSize) ==
    { [x |-> x, y |-> y, light |-> look[1].light, dark |-> look[1].dark,
       data |-> RowMajorPixels(boxSize, look[2])] :
        x \in 0..(size.width - 1), y \in 0..(size.height - 1), look \in LookSamples }

UnpackSamples ==
    UNION { { [size |-> sz, boxSize |-> bs, data |-> d] :
                d \in SeqsUpTo(GridBoxSamples(sz, bs), MaxBoxes) } :
            sz \in GridSamples, bs \in 1..MaxBoxSize }

(***************************************************************************)
(* SpecUnpack: unpack applied to a PackedImage, and again after two        *)
(* neighbouring boxes of its list changed places.                          *)
(***************************************************************************)
InitUnpack ==
    /\ pc = "start"
    /\ LimitIdle /\ BoxifyIdle /\ CliIdle
    /\ packed \in UnpackSamples
    /\ bytes = None /\ decoded = None /\ reencoded = None /\ given = None
    /\ unpacked = None /\ reference = None
    /\ exitCode = None

Unpack ==
    /\ pc = "start"
    /\ unpacked' = unpack(packed)
    /\ reference' = unpack(packed)
    /\ pc' = "unpacked"
    /\ UNCHANGED <<formatVars, limitVars, boxifyVars, cliVars, exitCode>>

\* the caller presents the same boxes in another order
Reorder ==
    /\ pc = "unpacked"
    /\ \E i \in 1..(Len(packed.data) - 1) :
        /\ packed.data[i] # packed.data[i + 1]
        /\ packed' = [packed EXCEPT !.data = [packed.data EXCEPT ![i] = packed.data[i + 1],
                                                                 ![i + 1] = packed.data[i]]]
    /\ pc' = "reordered"
    /\ UNCHANGED <<bytes, decoded, reencoded, given, limitVars, boxifyVars, unpackVars,
                   cliVars, exitCode>>

UnpackReordered ==
    /\ pc = "reordered"
    /\ unpacked' = unpack(packed)
    /\ pc' = "unpacked"
    /\ UNCHANGED <<formatVars, limitVars, boxifyVars, reference, cliVars, exitCode>>

NextUnpack == Unpack \/ Reorder \/ UnpackReordered

SpecUnpack == InitUnpack /\ [][NextUnpack]_vars

\* the boxes of p have distinct coordinates inside the grid
DistinctInGrid(p) ==
    /\ \A i \in 1..Len(p.data) :
        /\ p.data[i].x \in 0..(p.size.width - 1)
        /\ p.data[i].y \in 0..(p.size.height - 1)
    /\ \A i, j \in 1..Len(p.data) :
        i # j => <<p.data[i].x, p.data[i].y>> # <<p.data[j].x, p.data[j].y>>

\* the R, G, B, A of the bitmap at (x, y)
BitmapPixel(bitmap, x, y) ==
    LET at == (y * bitmap.width + x) * 4
    IN << bitmap.data[at + 1], bitmap.data[at + 2], bitmap.data[at + 3], bitmap.data[at + 4] >>

\* C8: for boxes with distinct coordinates inside the grid, unpack returns
\* a bitmap of (size.width * boxSize) x (size.height * boxSize) pixels where
\* every pixel of a box has the box's dark colour for index 0 and its light
\* colour otherwise, alpha 255; every pixel no box covers is 0, 0, 0, 255;
\* and the bitmap is the same in whatever order the boxes are listed.
C8_UnpackPlacement ==
    (pc = "unpacked" /\ DistinctInGrid(packed)) =>
        LET bs == packed.boxSize
            w == packed.size.width * bs
            h == packed.size.height * bs
        IN /\ unpacked.width = w /\ unpacked.height = h
           /\ Len(unpacked.data) = w * h * 4
           /\ \A i \in 1..Len(packed.data) :
                LET box == packed.data[i] IN
                \A k \in 1..Len(box.data) :
                    LET c == IF box.data[k].index = 0 THEN box.dark ELSE box.light
                    IN BitmapPixel(unpacked, box.x * bs + box.data[k].x,
                                   box.y * bs + box.data[k].y) = << c.r, c.g, c.b, 255 >>
           /\ \A x \in 0..(w - 1), y \in 0..(h - 1) :
                (~ \E i \in 1..Len(packed.data) :
                    packed.data[i].x = x \div bs /\ packed.data[i].y = y \div bs)
                    => BitmapPixel(unpacked, x, y) = << 0, 0, 0, 255 >>
           /\ unpacked = reference

C8_Witness ==
    /\ pc = "unpacked" /\ DistinctInGrid(packed)
    /\ packed.boxSize = 2 /\ packed.size = [width |-> 2, height |-> 2]
    /\ Len(packed.data) = 2
    /\ packed.data[1].y > packed.data[2].y
    /\ unpacked = reference
    /\ reference.data # blankImageData(4, 4)

(***************************************************************************)
(* The command line: compress(input, output, boxSize) and                  *)
(* decompress(input, output).  The raster codec and the file system are    *)
(* outside the program: the decoded image is kept by its width and height, *)
(* the PackedImage by the fields the header is computed from, and the      *)
(* output path by whether anything was written to it.                      *)
(***************************************************************************)
\* Object.keys(fileHandlers)
fileHandlers == { ".jpeg", ".jpg", ".png" }

\* !boxSize
notGiven(boxSize) == boxSize \in {Undefined, NaN, 0}

\* an uncaught exception ends the process with status 1
UncaughtExitCode == 1

\* path.extname(outputPath): the extension of options.output, or of the
\* path generateOutputPath derives from the input
outputExtensionOf(output, derived) == IF output = "" THEN derived ELSE output

\* boxify never returns: yStart moves away from size.height
boxifyLoopsForever(img, boxSize) ==
    boxSize < 0 /\ JsLt(0, croppedSize(img, boxSize).height)

\* size, boxSize and data.length of pack(boxify(image, boxSize))
packedShape(img, boxSize) ==
    LET size == boxifyResult(croppedSize(img, boxSize), boxSize, << >>).size
    IN [boxSize |-> boxSize, size |-> size,
        length |-> IF boxSize > 0 THEN size.width * size.height ELSE 0]

\* new Array(width * height * 4) throws a RangeError for a length that is
\* not a number
unpackThrows(p) == ~ IsNum(p.size.width) \/ ~ IsNum(p.size.height) \/ ~ IsNum(p.boxSize)

OptionSamples ==
    { [input |-> i, output |-> o, boxSize |-> n] :
        i \in { ".png", ".jpg", ".gif", ".qimg" },
        o \in { "", ".qimg", ".png", ".bmp" },
        n \in { Undefined, NaN, 0, -2, 1, 2 } }

DecodedSamples == { [width |-> 1, height |-> 1], [width |-> 4, height |-> 3],
                    [width |-> 600, height |-> 2] }

FileSamples ==
    { Stream(<<0, 1>>, 1, 1, 1, << RecordSample(1, 2) >>),
      [ Stream(<<0, 1>>, 1, 1, 1, << RecordSample(1, 2) >>) EXCEPT ![3] = 0 ],
      << >> }

InitCli ==
    /\ pc = "start"
    /\ packed = None /\ decoded = None /\ reencoded = None /\ given = None
    /\ pushed = None /\ recordCount = None /\ shape = None
    /\ optBoxSize = None /\ cropSize = None /\ boxList = None
    /\ yStart = None /\ xStart = None /\ boxes = None
    /\ UnpackIdle
    /\ options \in OptionSamples
    /\ image \in DecodedSamples
    /\ bytes \in FileSamples
    /\ outputFile = "absent"
    /\ exitCode = None

CliUnchanged == <<packed, decoded, reencoded, given, pushed, recordCount, optBoxSize,
                  cropSize, boxList, yStart, xStart, boxes, unpackVars, options, image, bytes>>

\* line 425: the mode is taken from the extension of the input
SelectMode ==
    /\ pc = "start"
    /\ pc' = IF options.input = ".qimg" THEN "decompress" ELSE "compress"
    /\ UNCHANGED <<CliUnchanged, shape, outputFile, exitCode>>

\* lines 309-312
CompressNoBoxSize ==
    /\ pc = "compress"
    /\ notGiven(options.boxSize)
    /\ exitCode' = ProcessExitCode
    /\ pc' = "exited"
    /\ UNCHANGED <<CliUnchanged, shape, outputFile>>

\* lines 325-328
CompressUnknownInput ==
    /\ pc = "compress"
    /\ ~ notGiven(options.boxSize)
    /\ options.input \notin fileHandlers
    /\ exitCode' = ProcessExitCode
    /\ pc' = "exited"
    /\ UNCHANGED <<CliUnchanged, shape, outputFile>>

\* lines 330-343: the image is decoded, boxify and pack return
CompressPack ==
    /\ pc = "compress"
    /\ ~ notGiven(options.boxSize)
    /\ options.input \in fileHandlers
    /\ ~ boxifyLoopsForever(image, options.boxSize)
    /\ shape' = packedShape(image, options.boxSize)
    /\ pc' = "packed"
    /\ UNCHANGED <<CliUnchanged, outputFile, exitCode>>

\* lines 330-342: the image is decoded, boxify never returns
CompressHang ==
    /\ pc = "compress"
    /\ ~ notGiven(options.boxSize)
    /\ options.input \in fileHandlers
    /\ boxifyLoopsForever(image, options.boxSize)
    /\ pc' = "looping"
    /\ UNCHANGED <<CliUnchanged, shape, outputFile, exitCode>>

\* lines 351-352, 187-193: serialiseFromPacked ends the process
CompressTooLarge ==
    /\ pc = "packed"
    /\ outputExtensionOf(options.output, ".qimg") = ".qimg"
    /\ tooLarge(shape.boxSize, shape.size)
    /\ exitCode' = ProcessExitCode
    /\ pc' = "exited"
    /\ UNCHANGED <<CliUnchanged, shape, outputFile>>

\* lines 351-355: the bytes are written, the program ends
CompressWriteQimg ==
    /\ pc = "packed"
    /\ outputExtensionOf(options.output, ".qimg") = ".qimg"
    /\ ~ tooLarge(shape.boxSize, shape.size)
    /\ outputFile' = "written"
    /\ exitCode' = 0
    /\ pc' = "exited"
    /\ UNCHANGED <<CliUnchanged, shape>>

\* line 357: fileHandlers[outputExtension] is undefined, reading .encode throws
CompressNoEncoder ==
    /\ pc = "packed"
    /\ outputExtensionOf(options.output, ".qimg") \notin (fileHandlers \cup {".qimg"})
    /\ exitCode' = UncaughtExitCode
    /\ pc' = "exited"
    /\ UNCHANGED <<CliUnchanged, shape, outputFile>>

\* lines 363-371: the unpacked image is encoded to the output path
CompressWriteImage ==
    /\ pc = "packed"
    /\ outputExtensionOf(options.output, ".qimg") \in fileHandlers
    /\ outputFile' = "written"
    /\ exitCode' = 0
    /\ pc' = "exited"
    /\ UNCHANGED <<CliUnchanged, shape>>

\* line 391: fileHandlers[outputExtension] is undefined, reading .encode throws
DecompressNoEncoder ==
    /\ pc = "decompress"
    /\ outputExtensionOf(options.output, ".jpeg") \notin fileHandlers
    /\ exitCode' = UncaughtExitCode
    /\ pc' = "exited"
    /\ UNCHANGED <<CliUnchanged, shape, outputFile>>

\* lines 397-398, 234-239: deserialiseIntoPacked ends the process
DecompressBadMagic ==
    /\ pc = "decompress"
    /\ outputExtensionOf(options.output, ".jpeg") \in fileHandlers
    /\ deserialiseExits(bytes)
    /\ exitCode' = ProcessExitCode
    /\ pc' = "exited"
    /\ UNCHANGED <<CliUnchanged, shape, outputFile>>

\* lines 398-399, 149: unpack throws on a size that is not a number
DecompressUnpackThrows ==
    /\ pc = "decompress"
    /\ outputExtensionOf(options.output, ".jpeg") \in fileHandlers
    /\ ~ deserialiseExits(bytes)
    /\ unpackThrows(deserialiseIntoPacked(bytes))
    /\ exitCode' = UncaughtExitCode
    /\ pc' = "exited"
    /\ UNCHANGED <<CliUnchanged, shape, outputFile>>

\* lines 398-408: the unpacked image is encoded to the output path
DecompressWrite ==
    /\ pc = "decompress"
    /\ outputExtensionOf(options.output, ".jpeg") \in fileHandlers
    /\ ~ deserialiseExits(bytes)
    /\ ~ unpackThrows(deserialiseIntoPacked(bytes))
    /\ outputFile' = "written"
    /\ exitCode' = 0
    /\ pc' = "exited"
    /\ UNCHANGED <<CliUnchanged, shape>>

NextCli ==
    \/ SelectMode
    \/ CompressNoBoxSize \/ CompressUnknownInput \/ CompressPack \/ CompressHang
    \/ CompressTooLarge \/ CompressWriteQimg \/ CompressNoEncoder \/ CompressWriteImage
    \/ DecompressNoEncoder \/ DecompressBadMagic \/ DecompressUnpackThrows \/ DecompressWrite

SpecCli == InitCli /\ [][NextCli]_vars

\* a core validation fails in this run: the box size is missing or not
\* positive, a header field is too large to serialise, the magic does not
\* match, or an input or output extension is not supported
ValidationFails ==
    IF options.input = ".qimg"
    THEN \/ ~ (Len(bytes) >= 8 /\ SubSeq(bytes, 1, 8) = MAGIC)
         \/ options.output \notin { "", ".jpeg", ".jpg", ".png" }
    ELSE \/ ~ IsNum(options.boxSize)
         \/ options.boxSize <= 0
         \/ options.input \notin { ".jpeg", ".jpg", ".png" }
         \/ options.output \notin { "", ".qimg", ".jpeg", ".jpg", ".png" }
         \/ /\ options.output \in { "", ".qimg" }
            /\ \/ options.boxSize > 255
               \/ image.width \div options.boxSize > 255
               \/ image.height \div options.boxSize > 255

\* C10: a run in which a core validation fails ends with a non-zero exit
\* status and nothing written to the output path.
C10_FailureExitsNonZero ==
    (pc = "exited" /\ ValidationFails) => (exitCode # 0 /\ outputFile = "absent")

====
